---- MODULE Spec2Model ----
(***************************************************************************)
(* Model of tensorpack/callbacks/inference_runner.py: the name registry    *)
(* OutputTensorDispatcher, summary_inferencer, InferenceRunner (data fed   *)
(* per step) and FeedfreeInferenceRunner (data read by the graph itself).  *)
(*                                                                         *)
(* Python lists are sequences; the indices the code stores (list.index,    *)
(* len - 1, IOTensor.index) keep their 0-based values and are used as      *)
(* seq[k + 1].  None is the one-element sequence <<"None">>.               *)
(***************************************************************************)
EXTENDS Integers, Sequences, FiniteSets, TLC

VARIABLES
    kind,            \* which object is under study: "dispatcher", "fed", "feedfree"
    pc,              \* position of the runner in its life cycle
    error,           \* the exception that left the runner, "" when none
    \* OutputTensorDispatcher
    _names,          \* OutputTensorDispatcher._names
    _idxs,           \* OutputTensorDispatcher._idxs
    entries,         \* history: the arguments of the add_entry calls, in call order
    \* constructor arguments and collaborators
    infs,            \* self.infs: per inferencer, what get_output_tensors() returns
    types_ok,        \* the isinstance assertions of __init__ hold
    input_names,     \* InferenceRunner.input_names / FeedfreeInferenceRunner._input_names
    placehdrs,       \* trainer.model.get_reused_placehdrs()
    ds_size,         \* number of datapoints ds.get_data() yields / what input.size() gives
    ds_pos,          \* position of the dataset iterator
    prefix,          \* FeedfreeInferenceRunner._prefix
    model_tensors,   \* names of the tensors build_graph creates inside a tower
    n_input_tensors, \* len(self._input_data.get_input_tensors())
    \* state built by __init__ and _setup_graph
    _size,           \* FeedfreeInferenceRunner._size
    output_names,    \* InferenceRunner.output_names
    inf_to_tensors,  \* InferenceRunner.inf_to_tensors
    _tower_prefix,   \* FeedfreeInferenceRunner._tower_prefix
    _output_tensors, \* FeedfreeInferenceRunner._output_tensors
    inf_to_idxs,     \* FeedfreeInferenceRunner.inf_to_idxs
    \* observation of the calls made on the collaborators
    pass,            \* number of triggers started
    log,             \* calls on inferencers, dataset, predictor, session, in call order
    rets,            \* what each after_inference() returned in the current pass
    summary          \* calls on the metrics sink and the logger in the current pass

vars == <<kind, pc, error, _names, _idxs, entries, infs, types_ok, input_names,
          placehdrs, ds_size, ds_pos, prefix, model_tensors, n_input_tensors,
          _size, output_names, inf_to_tensors, _tower_prefix, _output_tensors,
          inf_to_idxs, pass, log, rets, summary>>

dispVars == <<_names, _idxs>>
cfgVars == <<infs, types_ok, input_names, placehdrs, ds_size, prefix,
             model_tensors, n_input_tensors>>
builtVars == <<_size, output_names, inf_to_tensors, _tower_prefix,
               _output_tensors, inf_to_idxs>>
runVars == <<ds_pos, pass, log, rets, summary>>

(***************************************************************************)
(* Bounds of the model.                                                    *)
(***************************************************************************)
MaxReq == 2        \* longest request list drawn for an inferencer
MaxEntries == 2    \* add_entry calls on a stand-alone dispatcher
MaxData == 2       \* largest dataset / pipeline size
MaxPasses == 2     \* triggers per run

(***************************************************************************)
(* Generic helpers for Python list operations.                             *)
(***************************************************************************)
Range(s) == {s[k] : k \in 1..Len(s)}

\* list.index(x): the 0-based position of the first occurrence
index(s, x) == (CHOOSE k \in 1..Len(s) : s[k] = x /\ \A m \in 1..(k - 1) : s[m] # x) - 1

\* list(filter(lambda x: keep(x), s))
RECURSIVE filter(_, _)
filter(s, drop) ==
    IF s = <<>> THEN <<>>
    ELSE IF Head(s) \in drop THEN filter(Tail(s), drop)
         ELSE <<Head(s)>> \o filter(Tail(s), drop)

RECURSIVE Flatten(_)
Flatten(ss) == IF ss = <<>> THEN <<>> ELSE Head(ss) \o Flatten(Tail(ss))

NoDup(s) == \A a, b \in 1..Len(s) : s[a] = s[b] => a = b

None == <<"None">>

(***************************************************************************)
(* Tensor names.  get_op_tensor_name (tfutils/common.py) turns a name into *)
(* the pair (operation name, tensor name): a name that already ends in an  *)
(* output suffix ":k" is a tensor name, any other gets ":0" appended.      *)
(***************************************************************************)
OpNames == {"loss", "acc", "pred"}
TensorNames == {n \o ":0" : n \in OpNames}
OpOfTensor == [t \in TensorNames |-> CHOOSE n \in OpNames : n \o ":0" = t]

get_op_tensor_name(n) ==
    IF n \in TensorNames THEN <<OpOfTensor[n], n>> ELSE <<n, n \o ":0">>

\* the names request lists are drawn from: both forms of one name and two others
Names == {"pred", "pred:0", "loss", "acc:0"}

RECURSIVE SeqsUpTo(_, _)
SeqsUpTo(S, n) ==
    IF n = 0 THEN {<<>>}
    ELSE LET shorter == SeqsUpTo(S, n - 1)
         IN  shorter \cup {Append(s, x) : s \in shorter, x \in S}

ReqLists == SeqsUpTo(Names, MaxReq)

(***************************************************************************)
(* OutputTensorDispatcher.  A dispatcher is the pair of its two lists.     *)
(***************************************************************************)
\* add_entry_step without the membership test: every name is appended
add_entry_step_nodedup(st, n) ==
    LET tensorname == get_op_tensor_name(n)[2]
    IN  [names |-> Append(st.names, tensorname),
         v |-> Append(st.v, Len(st.names) + 1 - 1)]

\* add_entry_step recording len(self._names) - 1 for a known name as well
add_entry_step_lastidx(st, n) ==
    LET tensorname == get_op_tensor_name(n)[2]
    IN  IF tensorname \in Range(st.names)
        THEN [names |-> st.names, v |-> Append(st.v, Len(st.names) - 1)]
        ELSE [names |-> Append(st.names, tensorname),
              v |-> Append(st.v, Len(st.names) + 1 - 1)]

\* add_entry_step looking the name up as it was given, without
\* get_op_tensor_name
add_entry_step_raw(st, n) ==
    LET tensorname == n
    IN  IF tensorname \in Range(st.names)
        THEN [names |-> st.names, v |-> Append(st.v, index(st.names, tensorname))]
        ELSE [names |-> Append(st.names, tensorname),
              v |-> Append(st.v, Len(st.names) + 1 - 1)]

\* add_entry_step putting a new name in front of the known ones
add_entry_step_prepend(st, n) ==
    LET tensorname == get_op_tensor_name(n)[2]
    IN  IF tensorname \in Range(st.names)
        THEN [names |-> st.names, v |-> Append(st.v, index(st.names, tensorname))]
        ELSE [names |-> <<tensorname>> \o st.names, v |-> Append(st.v, 0)]

\* one iteration of the loop of add_entry: st = [names, v]
add_entry_step(st, n) ==
    LET tensorname == get_op_tensor_name(n)[2]
    IN  IF tensorname \in Range(st.names)
        THEN [names |-> st.names, v |-> Append(st.v, index(st.names, tensorname))]
        ELSE [names |-> Append(st.names, tensorname),
              v |-> Append(st.v, Len(st.names) + 1 - 1)]

RECURSIVE add_entry_loop(_, _)
add_entry_loop(st, names) ==
    IF names = <<>> THEN st
    ELSE add_entry_loop(add_entry_step(st, Head(names)), Tail(names))

add_entry(d, names) ==
    LET st == add_entry_loop([names |-> d.names, v |-> <<>>], names)
    IN  [names |-> st.names, idxs |-> Append(d.idxs, st.v)]

get_all_names(d) == d.names

get_idx_for_each_entry(d) == d.idxs

get_names_for_each_entry(d) ==
    [e \in 1..Len(d.idxs) |-> [p \in 1..Len(d.idxs[e]) |-> d.names[d.idxs[e][p] + 1]]]

OutputTensorDispatcher == [names |-> <<>>, idxs |-> <<>>]

\* dispatcher.add_entry(...) for every element of a list of request lists
RECURSIVE add_entries(_, _)
add_entries(d, reqs) ==
    IF reqs = <<>> THEN d ELSE add_entries(add_entry(d, Head(reqs)), Tail(reqs))

Dispatcher == [names |-> _names, idxs |-> _idxs]

(***************************************************************************)
(* The dispatcher on its own: any sequence of add_entry calls.             *)
(***************************************************************************)
IdleRunner ==
    /\ pc = "none" /\ error = ""
    /\ infs = <<>> /\ types_ok = TRUE /\ input_names = None /\ placehdrs = <<>>
    /\ ds_size = 0 /\ ds_pos = 0 /\ prefix = "" /\ model_tensors = {}
    /\ n_input_tensors = 0
    /\ _size = 0 /\ output_names = <<>> /\ inf_to_tensors = <<>>
    /\ _tower_prefix = "" /\ _output_tensors = <<>> /\ inf_to_idxs = <<>>
    /\ pass = 0 /\ log = <<>> /\ rets = <<>> /\ summary = <<>>

InitDispatcher ==
    /\ kind = "dispatcher"
    /\ _names = OutputTensorDispatcher.names
    /\ _idxs = OutputTensorDispatcher.idxs
    /\ entries = <<>>
    /\ IdleRunner

AddEntry ==
    /\ kind = "dispatcher"
    /\ Len(entries) < MaxEntries
    /\ \E names \in ReqLists :
          LET d == add_entry(Dispatcher, names)
          IN  /\ _names' = d.names
              /\ _idxs' = d.idxs
              /\ entries' = Append(entries, names)
    /\ UNCHANGED <<kind, pc, error, cfgVars, builtVars, runVars>>

NextDispatcher == AddEntry

SpecDispatcher == InitDispatcher /\ [][NextDispatcher]_vars

(***************************************************************************)
(* Values.  A value is a record; src "dp" is component j of datapoint d of *)
(* the dataset, src "out" is what evaluating tensor `name` gives at        *)
(* datapoint (or step) d.                                                  *)
(***************************************************************************)
FeedValue(d, j) == [src |-> "dp", name |-> "", d |-> d, j |-> j]
TensorValue(n, d) == [src |-> "out", name |-> n, d |-> d, j |-> 0]

\* the d-th datapoint ds.get_data() yields: one component per input name
DataPoint(d) == [c \in 1..Len(input_names) |-> FeedValue(d, c - 1)]

\* the callable of trainer.get_predictor(input_names, output_names): one
\* value per output name, in the order of output_names
predictor(d) == [c \in 1..Len(output_names) |-> TensorValue(output_names[c], d)]

\* sess.run(fetches): one value per fetched tensor, in the order of fetches
sess_run(fetches, d) == [c \in 1..Len(fetches) |-> TensorValue(fetches[c], d)]

\* DataFlow.reset_state(): the iterator is back at the first datapoint
reset_state(pos) == 0

\* TowerContext.get_predict_tower_name(0, prefix)
get_predict_tower_name(p) == IF p = "" THEN "towerp0" ELSE "towerp0-" \o p

\* the tensors of the default graph inside the tower once it is built
GraphTensors(tower) == {tower \o "/" \o n : n \in model_tensors}

Event(op, i, d, arg, p) == [op |-> op, inf |-> i, d |-> d, arg |-> arg, pass |-> p]

(***************************************************************************)
(* summary_inferencer.  after_inference() returns a dict, modelled as the  *)
(* sequence of its (key, value) pairs in iteration order.  A statistic is  *)
(* [type, repr]; float(v) succeeds on a number and on a numeric string.    *)
(***************************************************************************)
NumericStrings == {"0.5"}
FloatOk(v) == v.type = "float" \/ (v.type = "str" /\ v.repr \in NumericStrings)
float(v) == [type |-> "float", repr |-> v.repr]

Half == [type |-> "float", repr |-> "0.5"]
HalfStr == [type |-> "str", repr |-> "0.5"]
NotANumber == [type |-> "str", repr |-> "not-a-number"]
AList == [type |-> "list", repr |-> "[1, 2]"]

StatDicts ==
    { <<>>,
      << <<"m1", Half>> >>,
      << <<"m1", Half>>, <<"m2", NotANumber>> >>,
      << <<"m2", NotANumber>>, <<"m1", Half>> >>,
      << <<"m1", AList>>, <<"m2", HalfStr>> >> }

Scalar(i, k, v) == [op |-> "add_scalar_summary", inf |-> i, key |-> k, val |-> v]
Warn(i, k, v) == [op |-> "warn", inf |-> i, key |-> k, val |-> v]

\* summary_entry without the `continue` after the warning
summary_entry_nocontinue(i, kv) ==
    IF FloatOk(kv[2]) THEN <<Scalar(i, kv[1], float(kv[2]))>>
    ELSE <<Warn(i, kv[1], kv[2]), Scalar(i, kv[1], kv[2])>>

\* the body of `for k, v in six.iteritems(ret)` for one entry: the calls it makes
summary_entry(i, kv) ==
    IF FloatOk(kv[2]) THEN <<Scalar(i, kv[1], float(kv[2]))>>
    ELSE <<Warn(i, kv[1], kv[2])>>

\* the loop over the entries of one returned dict
RECURSIVE summary_entries(_, _)
summary_entries(i, ret) ==
    IF ret = <<>> THEN <<>>
    ELSE summary_entry(i, Head(ret)) \o summary_entries(i, Tail(ret))

\* summary_inferencer(trainer, infs), r[i] being what infs[i].after_inference()
\* returns: the calls on the trainer and the logger, in call order
RECURSIVE summary_inferencer(_, _)
summary_inferencer(i, r) ==
    IF i > Len(r) THEN <<>>
    ELSE summary_entries(i, r[i]) \o summary_inferencer(i + 1, r)

\* the after_inference() calls summary_inferencer makes, in call order
AfterInferenceCalls(p) == [i \in 1..Len(infs) |-> Event("after_inference", i, 0, <<>>, p)]

BeforeInferenceCalls(p) == [i \in 1..Len(infs) |-> Event("before_inference", i, 0, <<>>, p)]

(***************************************************************************)
(* InferenceRunner                                                         *)
(***************************************************************************)
IOTensor(idx, isOutput) == [index |-> idx, isOutput |-> isOutput]

\* get_name of _find_input_tensors: x.name, or for a tf.SparseTensor the
\* first component of x.op.name (kept in the placeholder as `group`)
get_name(x) == IF x.sparse THEN x.group ELSE x.name

\* _find_input_tensors bringing explicit input names to their tensor form
find_input_tensors_normalized(inames) ==
    IF inames = None THEN [k \in 1..Len(placehdrs) |-> get_name(placehdrs[k])]
    ELSE [k \in 1..Len(inames) |-> get_op_tensor_name(inames[k])[2]]

find_input_tensors(inames) ==
    IF inames = None THEN [k \in 1..Len(placehdrs) |-> get_name(placehdrs[k])]
    ELSE inames

\* find_tensors of _find_output_tensors
find_tensors(names, inames, onames) ==
    [p \in 1..Len(names) |->
        IF names[p] \in Range(inames)
        THEN IOTensor(index(inames, names[p]), FALSE)
        ELSE IOTensor(index(onames, names[p]), TRUE)]

\* _find_output_tensors taking output indices as positions in all_names
find_output_tensors_allnames(inames) ==
    LET dispatcher == add_entries(OutputTensorDispatcher, infs)
        all_names == get_all_names(dispatcher)
        onames == filter(all_names, Range(inames))
        per_entry == get_names_for_each_entry(dispatcher)
    IN  [dispatcher |-> dispatcher,
         output_names |-> onames,
         inf_to_tensors |-> [e \in 1..Len(per_entry) |->
                                find_tensors(per_entry[e], inames, all_names)]]

\* InferenceRunner._find_output_tensors: the dispatcher it builds and the
\* two attributes it sets
find_output_tensors(inames) ==
    LET dispatcher == add_entries(OutputTensorDispatcher, infs)
        all_names == get_all_names(dispatcher)
        onames == filter(all_names, Range(inames))
        per_entry == get_names_for_each_entry(dispatcher)
    IN  [dispatcher |-> dispatcher,
         output_names |-> onames,
         inf_to_tensors |-> [e \in 1..Len(per_entry) |->
                                find_tensors(per_entry[e], inames, onames)]]

\* inf_output of _trigger: the vector handed to one inferencer
inf_output(tensormap, outputs, dp) ==
    [p \in 1..Len(tensormap) |->
        (IF tensormap[p].isOutput THEN outputs ELSE dp)[tensormap[p].index + 1]]

\* the inner loop of _trigger: inf.datapoint(inf_output) for every inferencer
\* the inner loop of _trigger going through the inferencers from the last
fed_datapoint_calls_reversed(outputs, dp, d, p) ==
    [i \in 1..Len(infs) |->
        Event("datapoint", Len(infs) + 1 - i, d,
              inf_output(inf_to_tensors[Len(infs) + 1 - i], outputs, dp), p)]

fed_datapoint_calls(outputs, dp, d, p) ==
    [i \in 1..Len(infs) |->
        Event("datapoint", i, d, inf_output(inf_to_tensors[i], outputs, dp), p)]

InferenceRunner_init ==
    /\ kind = "fed" /\ pc = "new"
    /\ IF types_ok
       THEN pc' = "constructed" /\ error' = ""
       ELSE pc' = "construct_failed" /\ error' = "AssertionError"
    /\ UNCHANGED <<kind, dispVars, entries, cfgVars, builtVars, runVars>>

InferenceRunner_setup_graph ==
    /\ kind = "fed" /\ pc = "constructed"
    /\ LET inames == find_input_tensors(input_names)
           r == find_output_tensors(inames)
       IN  /\ input_names' = inames
           /\ _names' = r.dispatcher.names
           /\ _idxs' = r.dispatcher.idxs
           /\ output_names' = r.output_names
           /\ inf_to_tensors' = r.inf_to_tensors
           /\ log' = Append(log, Event("get_predictor", 0, 0, <<>>, pass))
    /\ pc' = "ready"
    /\ UNCHANGED <<kind, error, entries, infs, types_ok, placehdrs, ds_size, prefix,
                   model_tensors, n_input_tensors, _size, _tower_prefix,
                   _output_tensors, inf_to_idxs, ds_pos, pass, rets, summary>>

\* _trigger without the call of ds.reset_state()
InferenceRunner_trigger_start_noreset ==
    /\ kind = "fed" /\ pc \in {"ready", "done"}
    /\ pass < MaxPasses
    /\ pass' = pass + 1
    /\ log' = log \o BeforeInferenceCalls(pass + 1)
    /\ rets' = <<>> /\ summary' = <<>>
    /\ pc' = "running"
    /\ UNCHANGED <<kind, error, dispVars, entries, cfgVars, builtVars, ds_pos>>

\* _trigger resetting the dataset before it tells the inferencers
InferenceRunner_trigger_start_reset_first ==
    /\ kind = "fed" /\ pc \in {"ready", "done"}
    /\ pass < MaxPasses
    /\ pass' = pass + 1
    /\ log' = log \o <<Event("reset_state", 0, 0, <<>>, pass + 1)>>
                  \o BeforeInferenceCalls(pass + 1)
    /\ ds_pos' = reset_state(ds_pos)
    /\ rets' = <<>> /\ summary' = <<>>
    /\ pc' = "running"
    /\ UNCHANGED <<kind, error, dispVars, entries, cfgVars, builtVars>>

\* _trigger up to the loop: before_inference on all, then ds.reset_state()
InferenceRunner_trigger_start ==
    /\ kind = "fed" /\ pc \in {"ready", "done"}
    /\ pass < MaxPasses
    /\ pass' = pass + 1
    /\ log' = log \o BeforeInferenceCalls(pass + 1)
                  \o <<Event("reset_state", 0, 0, <<>>, pass + 1)>>
    /\ ds_pos' = reset_state(ds_pos)
    /\ rets' = <<>> /\ summary' = <<>>
    /\ pc' = "running"
    /\ UNCHANGED <<kind, error, dispVars, entries, cfgVars, builtVars>>

\* the iteration calling self.predictor(dp) once for each inferencer
InferenceRunner_trigger_datapoint_predict_per_inf ==
    /\ kind = "fed" /\ pc = "running"
    /\ ds_pos < ds_size
    /\ LET d == ds_pos + 1
           dp == DataPoint(d)
           outputs == predictor(d)
           calls == fed_datapoint_calls(outputs, dp, d, pass)
       IN  log' = log \o Flatten([i \in 1..Len(infs) |->
                                    <<Event("predictor", 0, d, dp, pass), calls[i]>>])
    /\ ds_pos' = ds_pos + 1
    /\ UNCHANGED <<kind, pc, error, dispVars, entries, cfgVars, builtVars, pass, rets, summary>>

\* one iteration of `for dp in self.ds.get_data()`
InferenceRunner_trigger_datapoint ==
    /\ kind = "fed" /\ pc = "running"
    /\ ds_pos < ds_size
    /\ LET d == ds_pos + 1
           dp == DataPoint(d)
           outputs == predictor(d)
       IN  log' = log \o <<Event("predictor", 0, d, dp, pass)>>
                      \o fed_datapoint_calls(outputs, dp, d, pass)
    /\ ds_pos' = ds_pos + 1
    /\ UNCHANGED <<kind, pc, error, dispVars, entries, cfgVars, builtVars, pass, rets, summary>>

\* the iteration catching the predictor's exception and going on to the
\* next datapoint
InferenceRunner_trigger_predictor_raises_swallowed ==
    /\ kind = "fed" /\ pc = "running"
    /\ ds_pos < ds_size
    /\ log' = log \o <<Event("predictor", 0, ds_pos + 1, DataPoint(ds_pos + 1), pass)>>
    /\ error' = "PredictorError"
    /\ ds_pos' = ds_pos + 1
    /\ UNCHANGED <<kind, pc, dispVars, entries, cfgVars, builtVars, pass, rets, summary>>

\* the same iteration when self.predictor(dp) raises: the exception leaves _trigger
InferenceRunner_trigger_predictor_raises ==
    /\ kind = "fed" /\ pc = "running"
    /\ ds_pos < ds_size
    /\ log' = log \o <<Event("predictor", 0, ds_pos + 1, DataPoint(ds_pos + 1), pass)>>
    /\ pc' = "raised" /\ error' = "PredictorError"
    /\ UNCHANGED <<kind, dispVars, entries, cfgVars, builtVars, ds_pos, pass, rets, summary>>

\* _trigger writing the summary before the dataset is exhausted
InferenceRunner_trigger_finish_early ==
    /\ kind = "fed" /\ pc = "running"
    /\ \E r \in [1..Len(infs) -> StatDicts] :
          rets' = r /\ summary' = summary_inferencer(1, r)
    /\ log' = log \o AfterInferenceCalls(pass)
    /\ pc' = "done"
    /\ UNCHANGED <<kind, error, dispVars, entries, cfgVars, builtVars, ds_pos, pass>>

\* the dataset is exhausted: _write_summary_after_inference
InferenceRunner_trigger_finish ==
    /\ kind = "fed" /\ pc = "running"
    /\ ds_pos >= ds_size
    /\ \E r \in [1..Len(infs) -> StatDicts] :
          rets' = r /\ summary' = summary_inferencer(1, r)
    /\ log' = log \o AfterInferenceCalls(pass)
    /\ pc' = "done"
    /\ UNCHANGED <<kind, error, dispVars, entries, cfgVars, builtVars, ds_pos, pass>>

(***************************************************************************)
(* FeedfreeInferenceRunner                                                 *)
(***************************************************************************)
\* input.size() raises NotImplementedError: modelled as the size -1
NoSize == 0 - 1

\* __init__ falling back to an empty pass when input.size() is not implemented
FeedfreeInferenceRunner_init_size_default ==
    /\ kind = "feedfree" /\ pc = "new"
    /\ IF ~types_ok
       THEN pc' = "construct_failed" /\ error' = "AssertionError" /\ _size' = _size
       ELSE /\ pc' = "constructed" /\ error' = ""
            /\ _size' = IF ds_size = NoSize THEN 0 ELSE ds_size
    /\ UNCHANGED <<kind, dispVars, entries, cfgVars, output_names, inf_to_tensors,
                   _tower_prefix, _output_tensors, inf_to_idxs, runVars>>

FeedfreeInferenceRunner_init ==
    /\ kind = "feedfree" /\ pc = "new"
    /\ IF ~types_ok
       THEN pc' = "construct_failed" /\ error' = "AssertionError" /\ _size' = _size
       ELSE IF ds_size = NoSize
       THEN pc' = "construct_failed" /\ error' = "ValueError" /\ _size' = _size
       ELSE pc' = "constructed" /\ error' = "" /\ _size' = ds_size
    /\ UNCHANGED <<kind, dispVars, entries, cfgVars, output_names, inf_to_tensors,
                   _tower_prefix, _output_tensors, inf_to_idxs, runVars>>

\* _find_output_tensors refusing the names of the model's inputs
feedfree_find_output_tensors_reject_inputs(tower) ==
    LET dispatcher == add_entries(OutputTensorDispatcher, infs)
        all_names == get_all_names(dispatcher)
        wanted == [k \in 1..Len(all_names) |-> tower \o "/" \o all_names[k]]
    IN  [dispatcher |-> dispatcher,
         found |-> /\ Range(wanted) \subseteq GraphTensors(tower)
                   /\ Range(all_names) \cap Range(find_input_tensors(None)) = {},
         _output_tensors |-> wanted,
         inf_to_idxs |-> get_idx_for_each_entry(dispatcher)]

\* FeedfreeInferenceRunner._find_output_tensors: G.get_tensor_by_name raises
\* KeyError for a name the graph does not hold
\* _find_output_tensors fetching the tensors in the reverse of the order of
\* get_all_names()
feedfree_find_output_tensors_reversed(tower) ==
    LET dispatcher == add_entries(OutputTensorDispatcher, infs)
        all_names == get_all_names(dispatcher)
        wanted == [k \in 1..Len(all_names) |->
                      tower \o "/" \o all_names[Len(all_names) + 1 - k]]
    IN  [dispatcher |-> dispatcher,
         found |-> Range(wanted) \subseteq GraphTensors(tower),
         _output_tensors |-> wanted,
         inf_to_idxs |-> get_idx_for_each_entry(dispatcher)]

feedfree_find_output_tensors(tower) ==
    LET dispatcher == add_entries(OutputTensorDispatcher, infs)
        all_names == get_all_names(dispatcher)
        wanted == [k \in 1..Len(all_names) |-> tower \o "/" \o all_names[k]]
    IN  [dispatcher |-> dispatcher,
         found |-> Range(wanted) \subseteq GraphTensors(tower),
         _output_tensors |-> wanted,
         inf_to_idxs |-> get_idx_for_each_entry(dispatcher)]

\* _setup_graph without the raise on explicit input names: the default
\* inputs are used
FeedfreeInferenceRunner_setup_graph_no_raise ==
    /\ kind = "feedfree" /\ pc = "constructed"
    /\ LET setup == Event("input.setup", 0, 0, <<>>, pass)
           build == Event("build_tower", 0, 0, <<>>, pass)
           tower == get_predict_tower_name(prefix)
           r == feedfree_find_output_tensors(tower)
       IN  IF n_input_tensors # Len(placehdrs)
           THEN /\ pc' = "setup_failed" /\ error' = "AssertionError"
                /\ log' = log \o <<setup>>
                /\ UNCHANGED <<dispVars, _tower_prefix, _output_tensors, inf_to_idxs>>
           ELSE /\ log' = log \o <<setup, build>>
                /\ _tower_prefix' = tower
                /\ _names' = r.dispatcher.names
                /\ _idxs' = r.dispatcher.idxs
                /\ IF r.found
                   THEN /\ pc' = "ready" /\ error' = ""
                        /\ _output_tensors' = r._output_tensors
                        /\ inf_to_idxs' = r.inf_to_idxs
                   ELSE /\ pc' = "setup_failed" /\ error' = "KeyError"
                        /\ UNCHANGED <<_output_tensors, inf_to_idxs>>
    /\ UNCHANGED <<kind, entries, cfgVars, _size, output_names, inf_to_tensors,
                   ds_pos, pass, rets, summary>>

FeedfreeInferenceRunner_setup_graph ==
    /\ kind = "feedfree" /\ pc = "constructed"
    /\ LET setup == Event("input.setup", 0, 0, <<>>, pass)
           build == Event("build_tower", 0, 0, <<>>, pass)
           tower == get_predict_tower_name(prefix)
           r == feedfree_find_output_tensors(tower)
       IN  IF input_names # None
           THEN /\ pc' = "setup_failed" /\ error' = "NotImplementedError"
                /\ log' = log \o <<setup>>
                /\ UNCHANGED <<dispVars, _tower_prefix, _output_tensors, inf_to_idxs>>
           ELSE IF n_input_tensors # Len(placehdrs)
           THEN /\ pc' = "setup_failed" /\ error' = "AssertionError"
                /\ log' = log \o <<setup>>
                /\ UNCHANGED <<dispVars, _tower_prefix, _output_tensors, inf_to_idxs>>
           ELSE /\ log' = log \o <<setup, build>>
                /\ _tower_prefix' = tower
                /\ _names' = r.dispatcher.names
                /\ _idxs' = r.dispatcher.idxs
                /\ IF r.found
                   THEN /\ pc' = "ready" /\ error' = ""
                        /\ _output_tensors' = r._output_tensors
                        /\ inf_to_idxs' = r.inf_to_idxs
                   ELSE /\ pc' = "setup_failed" /\ error' = "KeyError"
                        /\ UNCHANGED <<_output_tensors, inf_to_idxs>>
    /\ UNCHANGED <<kind, entries, cfgVars, _size, output_names, inf_to_tensors,
                   ds_pos, pass, rets, summary>>

\* the inner loop of _trigger: inf.datapoint([outputs[k] for k in idlist])
feedfree_datapoint_calls(outputs, d, p) ==
    [i \in 1..Len(infs) |->
        Event("datapoint", i, d,
              [q \in 1..Len(inf_to_idxs[i]) |-> outputs[inf_to_idxs[i][q] + 1]], p)]

\* range(self._size + 1)
feedfree_steps_one_more == _size + 1

\* range(self._size) of _trigger
feedfree_steps == _size

FeedfreeInferenceRunner_trigger_start ==
    /\ kind = "feedfree" /\ pc \in {"ready", "done"}
    /\ pass < MaxPasses
    /\ pass' = pass + 1
    /\ log' = log \o BeforeInferenceCalls(pass + 1)
    /\ ds_pos' = 0
    /\ rets' = <<>> /\ summary' = <<>>
    /\ pc' = "running"
    /\ UNCHANGED <<kind, error, dispVars, entries, cfgVars, builtVars>>

\* one iteration of `for _ in range(self._size)`
FeedfreeInferenceRunner_trigger_step ==
    /\ kind = "feedfree" /\ pc = "running"
    /\ ds_pos < feedfree_steps
    /\ LET d == ds_pos + 1
           outputs == sess_run(_output_tensors, d)
       IN  log' = log \o <<Event("sess.run", 0, d, <<>>, pass)>>
                      \o feedfree_datapoint_calls(outputs, d, pass)
    /\ ds_pos' = ds_pos + 1
    /\ UNCHANGED <<kind, pc, error, dispVars, entries, cfgVars, builtVars, pass, rets, summary>>

\* the same iteration when sess.run raises
FeedfreeInferenceRunner_trigger_run_raises ==
    /\ kind = "feedfree" /\ pc = "running"
    /\ ds_pos < feedfree_steps
    /\ log' = log \o <<Event("sess.run", 0, ds_pos + 1, <<>>, pass)>>
    /\ pc' = "raised" /\ error' = "RunError"
    /\ UNCHANGED <<kind, dispVars, entries, cfgVars, builtVars, ds_pos, pass, rets, summary>>

FeedfreeInferenceRunner_trigger_finish ==
    /\ kind = "feedfree" /\ pc = "running"
    /\ ds_pos >= feedfree_steps
    /\ \E r \in [1..Len(infs) -> StatDicts] :
          rets' = r /\ summary' = summary_inferencer(1, r)
    /\ log' = log \o AfterInferenceCalls(pass)
    /\ pc' = "done"
    /\ UNCHANGED <<kind, error, dispVars, entries, cfgVars, builtVars, ds_pos, pass>>

(***************************************************************************)
(* Configurations.                                                         *)
(***************************************************************************)
Placeholder(n) == [name |-> n, group |-> n, sparse |-> FALSE]
SparsePlaceholder(n, g) == [name |-> n, group |-> g, sparse |-> TRUE]

Models ==
    { << Placeholder("pred:0") >>,
      << Placeholder("acc:0"), Placeholder("pred:0") >>,
      << SparsePlaceholder("pred/values:0", "pred") >> }

\* explicit input_tensor_names, in tensor form and in operation form
InputTensorNames == { <<"pred:0">>, <<"pred">>, <<"acc:0", "pred:0">> }

\* the model and the explicit input names a fed runner is built with
FedInputs ==
    {[placehdrs |-> m, input_names |-> None] : m \in Models}
    \cup {[placehdrs |-> <<Placeholder("acc:0"), Placeholder("pred:0")>>,
           input_names |-> n] : n \in InputTensorNames}

\* inferencer lists of the full runs
RunInfs ==
    { << <<"loss", "acc">>, <<"acc", "pred">> >>,
      << <<"pred", "loss">>, <<"loss", "loss">> >>,
      << <<"pred:0", "acc:0">> >>,
      << <<"loss">> >>,
      << <<"loss", "pred:0">>, <<"pred", "loss">> >>,
      << <<>>, <<"acc:0", "pred">> >> }

\* inferencer lists of the setup study: one or two inferencers, any requests
SetupInfs ==
    {<<a>> : a \in ReqLists} \cup {<<a, b>> : a, b \in ReqLists}

ModelTensors == { {"loss:0", "acc:0"}, {"loss:0", "acc:0", "pred:0"} }

NewRunner ==
    /\ pc = "new" /\ error = ""
    /\ _names = <<>> /\ _idxs = <<>> /\ entries = <<>>
    /\ ds_pos = 0
    /\ _size = 0 /\ output_names = <<>> /\ inf_to_tensors = <<>>
    /\ _tower_prefix = "" /\ _output_tensors = <<>> /\ inf_to_idxs = <<>>
    /\ pass = 0 /\ log = <<>> /\ rets = <<>> /\ summary = <<>>

InitFed(InfLists, Types, Sizes) ==
    /\ kind = "fed"
    /\ infs \in InfLists
    /\ types_ok \in Types
    /\ \E c \in FedInputs : placehdrs = c.placehdrs /\ input_names = c.input_names
    /\ ds_size \in Sizes
    /\ prefix = "" /\ model_tensors = {} /\ n_input_tensors = 0
    /\ NewRunner

InitFeedfree(InfLists, Types, InputNames, Sizes, Prefixes, InputTensors) ==
    /\ kind = "feedfree"
    /\ infs \in InfLists
    /\ types_ok \in Types
    /\ placehdrs = << Placeholder("pred:0") >>
    /\ input_names \in InputNames
    /\ ds_size \in Sizes
    /\ prefix \in Prefixes
    /\ model_tensors \in ModelTensors
    /\ n_input_tensors \in InputTensors
    /\ NewRunner

Init ==
    \/ InitFed(RunInfs, BOOLEAN, 0..MaxData)
    \/ InitFeedfree(RunInfs, BOOLEAN, {None, <<"pred:0">>}, NoSize..MaxData,
                    {"", "val"}, {1, 2})

Next ==
    \/ InferenceRunner_init
    \/ InferenceRunner_setup_graph
    \/ InferenceRunner_trigger_start
    \/ InferenceRunner_trigger_datapoint
    \/ InferenceRunner_trigger_predictor_raises
    \/ InferenceRunner_trigger_finish
    \/ FeedfreeInferenceRunner_init
    \/ FeedfreeInferenceRunner_setup_graph
    \/ FeedfreeInferenceRunner_trigger_start
    \/ FeedfreeInferenceRunner_trigger_step
    \/ FeedfreeInferenceRunner_trigger_run_raises
    \/ FeedfreeInferenceRunner_trigger_finish

Spec == Init /\ [][Next]_vars

\* construction and setup only, over every pair of request lists
InitSetup ==
    \/ InitFed(SetupInfs, {TRUE}, {MaxData})
    \/ InitFeedfree(SetupInfs, {TRUE}, {None}, {MaxData}, {""}, {1})

NextSetup ==
    \/ InferenceRunner_init
    \/ InferenceRunner_setup_graph
    \/ FeedfreeInferenceRunner_init
    \/ FeedfreeInferenceRunner_setup_graph

SpecSetup == InitSetup /\ [][NextSetup]_vars

(***************************************************************************)
(* Properties.                                                             *)
(***************************************************************************)
\* the canonical tensor form of a name
TensorForm(n) == get_op_tensor_name(n)[2]
TensorForms(names) == [p \in 1..Len(names) |-> TensorForm(names[p])]

\* s without the later occurrences of its elements
RECURSIVE FirstSeen(_)
FirstSeen(s) ==
    IF s = <<>> THEN <<>>
    ELSE <<Head(s)>> \o FirstSeen(filter(Tail(s), {Head(s)}))

DatapointEvents == {e \in 1..Len(log) : log[e].op = "datapoint"}

\* what the j-th requested name n of an inferencer is worth at datapoint d
RequestedValue(n, d) ==
    LET t == TensorForm(n)
    IN  IF t \in Range(input_names)
        THEN DataPoint(d)[index(input_names, t) + 1]
        ELSE predictor(d)[index(output_names, t) + 1]

\* C1: in the fed runner every vector passed to datapoint() has the length
\* and order of the inferencer's request list, and its j-th element is the
\* value of the j-th requested name: the datapoint's component at the
\* name's position in input_names when the name is input-resident, else the
\* predictor's result at the name's position in output_names.
C1_FedRouting ==
    kind = "fed" =>
        \A e \in DatapointEvents :
            LET req == infs[log[e].inf]
            IN  /\ Len(log[e].arg) = Len(req)
                /\ \A j \in 1..Len(req) :
                      /\ TensorForm(req[j]) \in Range(input_names) \cup Range(output_names)
                      /\ log[e].arg[j] = RequestedValue(req[j], log[e].d)

\* a datapoint() call whose vector mixes a fed value and a predicted value,
\* for an inferencer that asks for an output another one asked for first
C1_Witness ==
    /\ kind = "fed"
    /\ \E e \in DatapointEvents :
          /\ log[e].inf = 2 /\ Len(log[e].arg) = 2
          /\ log[e].arg[1].src = "dp" /\ log[e].arg[2].src = "out"
          /\ infs[2][2] \in Range(infs[1])

\* C2: get_all_names() holds every distinct name once (a name counted in
\* its tensor form), in the order in which the names were first seen over
\* all add_entry calls.
C2_AllNamesOnceFirstSeen ==
    kind = "dispatcher" =>
        /\ NoDup(get_all_names(Dispatcher))
        /\ get_all_names(Dispatcher) = FirstSeen(TensorForms(Flatten(entries)))

\* two entries sharing a name, one of them repeating a name within itself
C2_Witness ==
    /\ kind = "dispatcher" /\ Len(entries) = 2
    /\ Range(entries[1]) \cap Range(entries[2]) # {}
    /\ Len(entries[2]) = 2 /\ entries[2][1] = entries[2][2]
    /\ Len(_names) = 2

\* C3 as stated: every index list has the length of its add_entry argument
\* and resolves through get_all_names() to exactly that argument.
C3_ResolvesToExactArgument ==
    kind = "dispatcher" =>
        \A i \in 1..Len(entries) :
            /\ Len(get_idx_for_each_entry(Dispatcher)[i]) = Len(entries[i])
            /\ get_names_for_each_entry(Dispatcher)[i] = entries[i]

\* C3: every index list has the length of its add_entry argument and
\* resolves through get_all_names() to the tensor form of each name of that
\* argument, position by position, repeats included.
C3_ResolvesToTensorForms ==
    kind = "dispatcher" =>
        /\ Len(get_idx_for_each_entry(Dispatcher)) = Len(entries)
        /\ \A i \in 1..Len(entries) :
              /\ Len(get_idx_for_each_entry(Dispatcher)[i]) = Len(entries[i])
              /\ get_names_for_each_entry(Dispatcher)[i] = TensorForms(entries[i])

\* a second entry that repeats the first name of a two-name first entry,
\* given in operation form
C3_Witness ==
    /\ kind = "dispatcher" /\ Len(entries) = 2
    /\ entries[1] = <<"loss", "pred">>
    /\ entries[2] = <<"loss", "loss">>
    /\ _idxs = << <<0, 1>>, <<0, 0>> >>

\* the output-resident names of a fed runner: the requested names in tensor
\* form, first occurrences only, without those found in input_names
OutputResident == filter(FirstSeen(TensorForms(Flatten(infs))), Range(input_names))

FedRefs == {<<e, p>> \in (1..Len(infs)) \X (1..MaxReq + 1) : p <= Len(infs[e])}

\* C4: after the fed runner's setup a requested name found in input_names
\* has the reference (index = its position in input_names, isOutput = false);
\* any other requested name has isOutput = true and as index its position
\* in the filtered output-name list (all_names without the input names,
\* order kept), so that the output indices cover exactly 0..k-1 for k
\* output-resident names.
C4_Classification ==
    (kind = "fed" /\ pc = "ready") =>
        /\ output_names = OutputResident
        /\ Len(inf_to_tensors) = Len(infs)
        /\ \A e \in 1..Len(infs) : Len(inf_to_tensors[e]) = Len(infs[e])
        /\ \A r \in FedRefs :
              LET t == TensorForm(infs[r[1]][r[2]])
                  ref == inf_to_tensors[r[1]][r[2]]
              IN  IF t \in Range(input_names)
                  THEN ref = IOTensor(index(input_names, t), FALSE)
                  ELSE /\ ref.isOutput
                       /\ ref.index \in 0..(Len(OutputResident) - 1)
                       /\ OutputResident[ref.index + 1] = t
        /\ {inf_to_tensors[r[1]][r[2]].index :
               r \in {q \in FedRefs : inf_to_tensors[q[1]][q[2]].isOutput}}
           = 0..(Len(OutputResident) - 1)

\* an input-resident name comes first in all_names, so the output name
\* after it has output index 0 but position 1 in all_names; a second input
\* has position 1 in input_names
C4_Witness ==
    /\ kind = "fed" /\ pc = "ready"
    /\ input_names = <<"acc:0", "pred:0">>
    /\ infs = << <<"pred", "loss">>, <<"loss", "acc:0">> >>
    /\ inf_to_tensors[1] = <<IOTensor(1, FALSE), IOTensor(0, TRUE)>>
    /\ index(_names, "loss:0") = 1

C5_Scenario ==
    /\ kind = "fed" /\ pc = "ready"
    /\ infs = << <<"loss", "acc">>, <<"acc", "pred">> >>

\* C5 as stated: with A = ["loss", "acc"], B = ["acc", "pred"] and the
\* input set {"pred"} (the input named in either form), setup yields
\* all_names = ["loss", "acc", "pred"], A's references [(output, 0),
\* (output, 1)] and B's references [(output, 1), (input, 0)].
C5_RoundTripAsStated ==
    (C5_Scenario /\ input_names \in {<<"pred">>, <<"pred:0">>}) =>
        /\ _names = <<"loss", "acc", "pred">>
        /\ inf_to_tensors[1] = <<IOTensor(0, TRUE), IOTensor(1, TRUE)>>
        /\ inf_to_tensors[2] = <<IOTensor(1, TRUE), IOTensor(0, FALSE)>>

\* C5: with A = ["loss", "acc"], B = ["acc", "pred"] and input_names =
\* ["pred:0"], setup yields all_names = ["loss:0", "acc:0", "pred:0"], A's
\* references [(output, 0), (output, 1)] and B's references [(output, 1),
\* (input, 0)].
C5_RoundTrip ==
    (C5_Scenario /\ input_names = <<"pred:0">>) =>
        /\ _names = <<"loss:0", "acc:0", "pred:0">>
        /\ output_names = <<"loss:0", "acc:0">>
        /\ inf_to_tensors[1] = <<IOTensor(0, TRUE), IOTensor(1, TRUE)>>
        /\ inf_to_tensors[2] = <<IOTensor(1, TRUE), IOTensor(0, FALSE)>>

C5_Witness ==
    /\ C5_Scenario /\ input_names = <<"pred:0">>
    /\ inf_to_tensors[2] = <<IOTensor(1, TRUE), IOTensor(0, FALSE)>>

\* pass p ran to its end
PassDone(p) == p < pass \/ (p = pass /\ pc = "done")

\* the calls `op` made on inferencer i in pass p, in call order
Calls(op, i, p) ==
    SelectSeq(log, LAMBDA ev : ev.op = op /\ ev.inf = i /\ ev.pass = p)

\* positions in the log of the calls `op` of pass p
Positions(op, p) == {e \in 1..Len(log) : log[e].op = op /\ log[e].pass = p}

\* the vector inferencer i is due at datapoint d of a fed pass
FedVector(i, d) == [j \in 1..Len(infs[i]) |-> RequestedValue(infs[i][j], d)]

\* C6: a fed pass over a dataset of N datapoints calls datapoint() on each
\* inferencer exactly N times, in dataset order, each time with the values
\* of that same datapoint; after_inference() is called once per inferencer,
\* after the last datapoint() call of the pass, and not before the pass ends.
C6_FedPassShape ==
    kind = "fed" =>
        \A p \in 1..pass : \A i \in 1..Len(infs) :
            LET dps == Calls("datapoint", i, p)
                afters == Calls("after_inference", i, p)
            IN  IF PassDone(p)
                THEN /\ Len(dps) = ds_size
                     /\ \A k \in 1..Len(dps) :
                           dps[k].d = k /\ dps[k].arg = FedVector(i, k)
                     /\ Len(afters) = 1
                     /\ \A a \in Positions("after_inference", p) :
                           \A e \in Positions("datapoint", p) : e < a
                ELSE Len(afters) = 0 /\ Len(dps) <= ds_size

\* a finished pass over the largest dataset, one inferencer asking for one output
C6_Witness ==
    /\ kind = "fed" /\ pc = "done" /\ pass = 1
    /\ ds_size = MaxData /\ infs = << <<"loss">> >>
    /\ Len(Calls("datapoint", 1, 1)) = MaxData
    /\ Calls("datapoint", 1, 1)[MaxData].arg = <<TensorValue("loss:0", MaxData)>>

\* the datapoint() arguments of inferencer i in pass p, in call order
DatapointArgs(i, p) ==
    LET dps == Calls("datapoint", i, p) IN [k \in 1..Len(dps) |-> dps[k].arg]

\* C7: two fed passes that both ran to their end hand every inferencer the
\* same sequence of datapoint() arguments.
C7_TriggerIdempotent ==
    kind = "fed" =>
        \A p \in 1..pass : \A q \in 1..pass : \A i \in 1..Len(infs) :
            (PassDone(p) /\ PassDone(q)) => DatapointArgs(i, p) = DatapointArgs(i, q)

\* two finished passes over a dataset with datapoints, two inferencers
C7_Witness ==
    /\ kind = "fed" /\ pc = "done" /\ pass = 2
    /\ ds_size = MaxData /\ Len(infs) = 2
    /\ Len(DatapointArgs(2, 2)) = MaxData
    /\ DatapointArgs(2, 2)[1] # DatapointArgs(2, 2)[MaxData]

\* the entries of all returned dicts, in the order summary_inferencer visits them
ReturnedEntries ==
    Flatten([i \in 1..Len(rets) |->
                [e \in 1..Len(rets[i]) |-> <<i, rets[i][e][1], rets[i][e][2]>>]])

\* C8: after a pass every entry of every returned dict has been handled, in
\* order, by exactly one call: add_scalar_summary with the converted value
\* when the value converts to a float, one warning otherwise; no error is
\* raised; {"m1": 0.5, "m2": "not-a-number"} gives one scalar and one warning.
C8_SummaryBestEffort ==
    pc = "done" =>
        /\ error = ""
        /\ Len(rets) = Len(infs)
        /\ Len(summary) = Len(ReturnedEntries)
        /\ \A n \in 1..Len(ReturnedEntries) :
              LET en == ReturnedEntries[n]
              IN  IF FloatOk(en[3])
                  THEN summary[n] = Scalar(en[1], en[2], float(en[3]))
                  ELSE summary[n] = Warn(en[1], en[2], en[3])
        /\ \A i \in 1..Len(rets) :
              rets[i] = << <<"m1", Half>>, <<"m2", NotANumber>> >> =>
                  /\ Cardinality({n \in 1..Len(summary) :
                        summary[n].inf = i /\ summary[n].op = "add_scalar_summary"}) = 1
                  /\ Cardinality({n \in 1..Len(summary) :
                        summary[n].inf = i /\ summary[n].op = "warn"}) = 1

\* the first inferencer returns {"m1": 0.5, "m2": "not-a-number"} and the
\* scalar of a later inferencer is still forwarded after the warning
C8_Witness ==
    /\ pc = "done" /\ Len(infs) = 2
    /\ rets[1] = << <<"m1", Half>>, <<"m2", NotANumber>> >>
    /\ rets[2] = << <<"m1", AList>>, <<"m2", HalfStr>> >>
    /\ summary = << Scalar(1, "m1", Half), Warn(1, "m2", NotANumber),
                    Warn(2, "m1", AList), Scalar(2, "m2", Half) >>

\* C9: a feedfree pass evaluates the output tensors exactly S times, S being
\* the size the pipeline declared at construction, each time without a
\* feed; every inferencer gets S datapoint() calls and then one
\* after_inference().
C9_FeedfreePassLength ==
    kind = "feedfree" =>
        /\ pc \in {"constructed", "ready", "running", "done", "raised", "setup_failed"}
              => _size = ds_size
        /\ \A p \in 1..pass :
              LET runs == Calls("sess.run", 0, p)
              IN  /\ \A k \in 1..Len(runs) : runs[k].d = k /\ runs[k].arg = <<>>
                  /\ IF PassDone(p) THEN Len(runs) = ds_size ELSE Len(runs) <= ds_size
                  /\ \A i \in 1..Len(infs) :
                        IF PassDone(p)
                        THEN /\ Len(Calls("datapoint", i, p)) = ds_size
                             /\ Len(Calls("after_inference", i, p)) = 1
                             /\ \A a \in Positions("after_inference", p) :
                                   \A e \in Positions("datapoint", p) : e < a
                        ELSE Len(Calls("after_inference", i, p)) = 0

C9_Witness ==
    /\ kind = "feedfree" /\ pc = "done" /\ pass = 2
    /\ _size = MaxData /\ Len(infs) = 2
    /\ Len(Calls("sess.run", 0, 2)) = MaxData
    /\ Len(Calls("datapoint", 2, 2)) = MaxData

\* the requests of a feedfree runner for names of the model's inputs
InputRequests ==
    {r \in FedRefs : TensorForm(infs[r[1]][r[2]]) \in Range(find_input_tensors(None))}

SetupRan == pc \notin {"new", "constructed", "construct_failed"}

\* C10 as stated: a feedfree runner that is asked for an input-resident
\* name rejects it with an error, and never resolves it as an output tensor.
C10_InputRequestRejected ==
    (kind = "feedfree" /\ SetupRan /\ InputRequests # {}) =>
        /\ pc = "setup_failed"
        /\ _output_tensors = <<>>

\* every requested name has a tensor of its prefixed name in the graph
AllInGraph ==
    \A r \in FedRefs :
        get_predict_tower_name(prefix) \o "/" \o TensorForm(infs[r[1]][r[2]])
            \in GraphTensors(get_predict_tower_name(prefix))

\* C10: a feedfree runner treats a request for an input-resident name like
\* any other request: the name is looked up under the tower prefix; setup
\* fails (KeyError of the graph lookup) exactly when some requested name has
\* no tensor of its prefixed name in the graph, and otherwise the name is
\* fetched and routed to the inferencer as an output tensor.
C10_InputRequestLookedUpAsOutput ==
    (kind = "feedfree" /\ SetupRan /\ input_names = None
        /\ n_input_tensors = Len(placehdrs)) =>
        IF AllInGraph
        THEN /\ pc # "setup_failed" /\ error \in {"", "RunError"}
             /\ \A r \in InputRequests :
                   /\ inf_to_idxs[r[1]][r[2]] \in 0..(Len(_output_tensors) - 1)
                   /\ _output_tensors[inf_to_idxs[r[1]][r[2]] + 1]
                         = _tower_prefix \o "/" \o TensorForm(infs[r[1]][r[2]])
        ELSE pc = "setup_failed" /\ error = "KeyError"

\* the value of the tower's tensor named like the model's input reaches an
\* inferencer that asked for that input
C10_Witness ==
    /\ kind = "feedfree" /\ pc = "running"
    /\ \E r \in InputRequests : \E e \in DatapointEvents :
          /\ log[e].inf = r[1]
          /\ log[e].arg[r[2]] = TensorValue("towerp0/pred:0", log[e].d)

\* the calls made on inferencers
InferencerCalls == {e \in 1..Len(log) : log[e].inf # 0}

\* C11: a feedfree runner given an explicit input-name list never gets past
\* setup: _setup_graph raises NotImplementedError before the tower is built
\* and before the requested names are resolved, the runner never runs a
\* pass and no inferencer is ever called.
C11_ExplicitInputNamesUnsupported ==
    (kind = "feedfree" /\ input_names # None) =>
        /\ pc \in {"new", "constructed", "construct_failed", "setup_failed"}
        /\ pass = 0
        /\ InferencerCalls = {}
        /\ \A e \in 1..Len(log) : log[e].op # "build_tower"
        /\ _tower_prefix = "" /\ _names = <<>> /\ _idxs = <<>>
        /\ _output_tensors = <<>> /\ inf_to_idxs = <<>>
        /\ SetupRan => (pc = "setup_failed" /\ error = "NotImplementedError")

\* setup of a well-constructed runner with explicit input names has raised,
\* although its input tensors match the model and the graph would hold
\* every requested tensor
C11_Witness ==
    /\ kind = "feedfree" /\ input_names = <<"pred:0">>
    /\ n_input_tensors = Len(placehdrs) /\ AllInGraph /\ infs # <<>>
    /\ pc = "setup_failed" /\ error = "NotImplementedError"
    /\ log = <<Event("input.setup", 0, 0, <<>>, 0)>>

\* C12: a feedfree runner built on a pipeline whose size() is not
\* implemented fails in __init__ (ValueError when the type assertions
\* pass): it is never set up, and the pipeline is never bound to the model,
\* no tower is built and nothing is evaluated.
C12_NoSizeFailsAtConstruction ==
    (kind = "feedfree" /\ ds_size = NoSize) =>
        /\ pc \in {"new", "construct_failed"}
        /\ (pc = "construct_failed" /\ types_ok) => error = "ValueError"
        /\ (pc = "construct_failed" /\ ~types_ok) => error = "AssertionError"
        /\ log = <<>> /\ pass = 0
        /\ _tower_prefix = "" /\ _output_tensors = <<>>

C12_Witness ==
    /\ kind = "feedfree" /\ ds_size = NoSize /\ types_ok
    /\ input_names = None /\ n_input_tensors = Len(placehdrs)
    /\ pc = "construct_failed" /\ error = "ValueError"

\* the calls of pass p, in call order
PassCalls(p) == SelectSeq(log, LAMBDA ev : ev.pass = p)

\* C13: every fed pass starts with before_inference on all inferencers in
\* list order, then exactly one reset_state() of the dataset, and only then
\* pulls datapoints and calls the predictor; each pass has its own reset.
C13_FedPassOrdering ==
    kind = "fed" =>
        \A p \in 1..pass :
            LET evs == PassCalls(p)
                n == Len(infs)
            IN  /\ Len(evs) >= n + 1
                /\ \A i \in 1..n : evs[i] = Event("before_inference", i, 0, <<>>, p)
                /\ evs[n + 1] = Event("reset_state", 0, 0, <<>>, p)
                /\ \A k \in (n + 2)..Len(evs) :
                      evs[k].op \in {"predictor", "datapoint", "after_inference"}
                /\ Len(evs) >= n + 2 => (evs[n + 2].op = "predictor" => evs[n + 2].d = 1)

\* the second pass of a runner with two inferencers is past its first
\* datapoint: the log holds two resets, one per pass
C13_Witness ==
    /\ kind = "fed" /\ pc = "running" /\ pass = 2 /\ ds_pos >= 1
    /\ Len(infs) = 2
    /\ Cardinality({e \in 1..Len(log) : log[e].op = "reset_state"}) = 2
    /\ Len(Calls("datapoint", 2, 2)) >= 1

EvalOps == {"predictor", "sess.run"}

\* the evaluations made for step d of pass p
Evaluations(p, d) ==
    {e \in 1..Len(log) : log[e].op \in EvalOps /\ log[e].pass = p /\ log[e].d = d}

Occurrences(s, x) == Cardinality({k \in 1..Len(s) : s[k] = x})

\* C14: each step is evaluated once: every datapoint (fed) or step
\* (feedfree) has exactly one predictor call / one sess.run, however many
\* inferencers there are and whatever names they share, a finished pass
\* counts as many evaluations as steps, and every requested output name is
\* once in the list of evaluated tensors.
C14_SingleEvaluationPerStep ==
    /\ \A e \in 1..Len(log) :
          log[e].op \in EvalOps \cup {"datapoint"} =>
              Cardinality(Evaluations(log[e].pass, log[e].d)) = 1
    /\ \A p \in 1..pass :
          PassDone(p) =>
              Cardinality({e \in 1..Len(log) : log[e].op \in EvalOps /\ log[e].pass = p})
                  = ds_size
    /\ (kind = "fed" /\ pc \in {"ready", "running", "done", "raised"}) =>
          \A i \in 1..Len(infs) : \A j \in 1..Len(infs[i]) :
              LET t == TensorForm(infs[i][j])
              IN  Occurrences(output_names, t) = IF t \in Range(input_names) THEN 0 ELSE 1
    /\ (kind = "feedfree" /\ pc \in {"ready", "running", "done", "raised"}) =>
          /\ NoDup(_output_tensors)
          /\ \A i \in 1..Len(infs) : \A j \in 1..Len(infs[i]) :
                Occurrences(_output_tensors,
                            _tower_prefix \o "/" \o TensorForm(infs[i][j])) = 1

\* two inferencers sharing the output "loss" have each been given the
\* first datapoint of a fed pass
C14_Witness ==
    /\ kind = "fed" /\ pc = "running" /\ ds_pos = 1
    /\ infs = << <<"pred", "loss">>, <<"loss", "loss">> >>
    /\ Len(Calls("datapoint", 1, 1)) = 1 /\ Len(Calls("datapoint", 2, 1)) = 1
    /\ Cardinality(Evaluations(1, 1)) = 1

\* C15: an evaluation that raises ends the pass there: the failed step is
\* evaluated once and not retried, no datapoint() is called for it or for a
\* later step, after_inference() is not called and no scalar is forwarded
\* for that pass, and the runner does nothing more.
C15_NoRetryNoPartialPass ==
    error \in {"PredictorError", "RunError"} =>
        /\ pc = "raised"
        /\ log # <<>>
        /\ LET last == log[Len(log)]
           IN  /\ last.op = (IF kind = "fed" THEN "predictor" ELSE "sess.run")
               /\ last.pass = pass /\ last.d = ds_pos + 1
               /\ Cardinality(Evaluations(pass, last.d)) = 1
        /\ \A e \in 1..Len(log) :
              log[e].pass = pass =>
                  /\ log[e].op # "after_inference"
                  /\ log[e].op = "datapoint" => log[e].d <= ds_pos
        /\ \A i \in 1..Len(infs) : Len(Calls("datapoint", i, pass)) = ds_pos
        /\ rets = <<>> /\ summary = <<>>

\* the predictor raised on the second datapoint of a pass: the first was
\* delivered to both inferencers
C15_Witness ==
    /\ kind = "fed" /\ pc = "raised" /\ error = "PredictorError"
    /\ ds_pos = 1 /\ ds_size = MaxData /\ Len(infs) = 2
    /\ Len(Calls("datapoint", 2, pass)) = 1

\* C16: after setup the fetch list of a feedfree runner holds, in the order
\* of get_all_names(), the tower-prefixed tensor of each deduplicated name;
\* every index of inf_to_idxs is a position of that list; and at every
\* step the j-th element given to inferencer i is the fetched value of the
\* tensor of the j-th name that inferencer asked for.
C16_FeedfreeRouting ==
    (kind = "feedfree" /\ pc \in {"ready", "running", "done", "raised"}) =>
        /\ _names = FirstSeen(TensorForms(Flatten(infs)))
        /\ Len(_output_tensors) = Len(get_all_names(Dispatcher))
        /\ \A k \in 1..Len(_output_tensors) :
              _output_tensors[k] = _tower_prefix \o "/" \o get_all_names(Dispatcher)[k]
        /\ Len(inf_to_idxs) = Len(infs)
        /\ \A i \in 1..Len(infs) :
              /\ Len(inf_to_idxs[i]) = Len(infs[i])
              /\ \A j \in 1..Len(infs[i]) :
                    inf_to_idxs[i][j] \in 0..(Len(_output_tensors) - 1)
        /\ \A e \in DatapointEvents :
              LET i == log[e].inf
              IN  /\ Len(log[e].arg) = Len(infs[i])
                  /\ \A j \in 1..Len(infs[i]) :
                        log[e].arg[j] =
                            TensorValue(_tower_prefix \o "/" \o TensorForm(infs[i][j]),
                                        log[e].d)

\* the second inferencer asks for the two fetched tensors in the order
\* opposite to the fetch list and has been given the second step
C16_Witness ==
    /\ kind = "feedfree" /\ pc = "running" /\ ds_pos = 2
    /\ infs = << <<"loss", "pred:0">>, <<"pred", "loss">> >>
    /\ inf_to_idxs = << <<0, 1>>, <<1, 0>> >>
    /\ Len(Calls("datapoint", 2, 1)) = 2
    /\ Calls("datapoint", 2, 1)[2].arg[1] = TensorValue(_tower_prefix \o "/pred:0", 2)

\* the names requested so far: <<i, p>> is the p-th name of the i-th add_entry
EntryRefs ==
    {r \in (1..Len(entries)) \X (1..MaxReq + 1) : r[2] <= Len(entries[r[1]])}

\* C17: add_entry brings every name to its tensor form before it looks it
\* up: get_all_names() holds tensor-form names only, each once, and two
\* requests whose names have the same tensor form ("x" and "x:0") get the
\* same global index, that of the one registered name.
C17_NormalizedBeforeDedup ==
    kind = "dispatcher" =>
        /\ Range(_names) \subseteq TensorNames
        /\ NoDup(_names)
        /\ Len(_idxs) = Len(entries)
        /\ \A r \in EntryRefs :
              /\ Len(_idxs[r[1]]) = Len(entries[r[1]])
              /\ _idxs[r[1]][r[2]] \in 0..(Len(_names) - 1)
              /\ _names[_idxs[r[1]][r[2]] + 1] = TensorForm(entries[r[1]][r[2]])
        /\ \A r \in EntryRefs : \A q \in EntryRefs :
              TensorForm(entries[r[1]][r[2]]) = TensorForm(entries[q[1]][q[2]])
                  => _idxs[r[1]][r[2]] = _idxs[q[1]][q[2]]

\* "pred" and "pred:0" were both registered, in one call and across calls
C17_Witness ==
    /\ kind = "dispatcher"
    /\ entries = << <<"pred", "pred:0">>, <<"pred:0", "pred">> >>
    /\ _names = <<"pred:0">>
    /\ _idxs = << <<0, 0>>, <<0, 0>> >>

\* C18: the dispatcher only grows: every recorded index is a position of
\* the name list, and an add_entry keeps the names registered before it at
\* their positions, keeps the earlier index lists as they were, and appends
\* exactly one index list (and the names that are new).
C18_AdditiveGrowth ==
    /\ [](kind = "dispatcher" =>
             \A i \in 1..Len(_idxs) : \A j \in 1..Len(_idxs[i]) :
                 _idxs[i][j] \in 0..(Len(_names) - 1))
    /\ [][kind = "dispatcher" =>
             /\ Len(_names') >= Len(_names)
             /\ \A k \in 1..Len(_names) : _names'[k] = _names[k]
             /\ Len(_idxs') = Len(_idxs) + 1
             /\ \A i \in 1..Len(_idxs) : _idxs'[i] = _idxs[i]
             /\ Len(_names') - Len(_names) <= Len(_idxs'[Len(_idxs')])]_vars

\* the second add_entry registered one new name and reused an earlier one
C18_Witness ==
    /\ kind = "dispatcher"
    /\ entries = << <<"pred">>, <<"loss", "pred:0">> >>
    /\ _names = <<"pred:0", "loss:0">>
    /\ _idxs = << <<0>>, <<1, 0>> >>

\* the datapoint() calls of pass p on all inferencers, in call order
PassDatapoints(p) == SelectSeq(log, LAMBDA ev : ev.op = "datapoint" /\ ev.pass = p)

\* C19: both runners deliver step by step: within a pass the datapoint()
\* calls go through the inferencers in list order for step 1, then for
\* step 2, and so on; the calls for a step directly follow the one
\* evaluation of that step, and every value they carry is of that step.
C19_DatapointMajorDelivery ==
    /\ \A p \in 1..pass :
          LET dps == PassDatapoints(p)
              n == Len(infs)
          IN  \A m \in 1..Len(dps) :
                  /\ n > 0
                  /\ dps[m].inf = ((m - 1) % n) + 1
                  /\ dps[m].d = ((m - 1) \div n) + 1
    /\ \A e \in DatapointEvents :
          /\ e - log[e].inf >= 1
          /\ log[e - log[e].inf].op \in EvalOps
          /\ log[e - log[e].inf].d = log[e].d
          /\ log[e - log[e].inf].pass = log[e].pass
          /\ \A j \in 1..Len(log[e].arg) : log[e].arg[j].d = log[e].d

\* two inferencers of a fed runner have both been given two datapoints
C19_Witness ==
    /\ kind = "fed" /\ pc = "running" /\ pass = 1 /\ ds_pos = 2
    /\ Len(infs) = 2 /\ infs[1] # <<>> /\ infs[2] # <<>>
    /\ Len(PassDatapoints(1)) = 4
    /\ PassDatapoints(1)[2].inf = 2 /\ PassDatapoints(1)[3].inf = 1
    /\ PassDatapoints(1)[3].d = 2

\* C20: the fed runner takes explicit input_tensor_names as they are and
\* compares the tensor form of a requested name with them: a request is a
\* feed reference exactly when its tensor form is literally in input_names;
\* with an input given in operation form ("pred") the request for it is an
\* output reference and its tensor form is in output_names.
C20_InputNamesVerbatim ==
    /\ [][(kind = "fed" /\ input_names # None) => input_names' = input_names]_vars
    /\ []((kind = "fed" /\ pc = "ready") =>
            /\ \A r \in FedRefs :
                  LET t == TensorForm(infs[r[1]][r[2]])
                      ref == inf_to_tensors[r[1]][r[2]]
                  IN  /\ ref.isOutput <=> t \notin Range(input_names)
                      /\ ref.isOutput <=> t \in Range(output_names)
            /\ \A x \in OpNames :
                  (x \in Range(input_names) /\ TensorForm(x) \notin Range(input_names)) =>
                      \A r \in FedRefs :
                          TensorForm(infs[r[1]][r[2]]) = TensorForm(x) =>
                              /\ inf_to_tensors[r[1]][r[2]].isOutput
                              /\ TensorForm(x) \in Range(output_names))

\* the input was named "pred"; the requests "pred" and "pred:0" both became
\* references to the output "pred:0"
C20_Witness ==
    /\ kind = "fed" /\ pc = "ready"
    /\ input_names = <<"pred">>
    /\ infs = << <<"pred", "loss">>, <<"pred:0">> >>
    /\ output_names = <<"pred:0", "loss:0">>
    /\ inf_to_tensors = << <<IOTensor(0, TRUE), IOTensor(1, TRUE)>>, <<IOTensor(0, TRUE)>> >>

====
